---- MODULE Spec2Model ----
(***************************************************************************)
(* Habit tracker: the streak engine and Habit.from_form                    *)
(* (app/models/habit.py), the menu loop and the flows of the CLI           *)
(* (app/cli.py), the analytics functions (app/analysis/analyse.py) and     *)
(* the store operations they use (app/db/database.py).                     *)
(*                                                                         *)
(* A calendar date (datetime.date) is a record [year, month, day]; its     *)
(* ISO string "YYYY-MM-DD", as stored in the habits table, is the number   *)
(* whose decimal digits are YYYYMMDD.  Date arithmetic goes through the    *)
(* proleptic Gregorian ordinal, as datetime.date does.                     *)
(***************************************************************************)
EXTENDS Integers, Sequences, FiniteSets, TLC

VARIABLES
    habit,                \* the in-memory Habit: periodicity, completed, streak,
                          \* last_completed_date (None or a date)
    hist,                 \* the last engine call: argument, branch taken, prior streak
    row,                  \* the row handed to _rehydrate_habit_from_row (NoRow when none)
    habits,               \* table habits of the store, in id order
    next_id,              \* AUTOINCREMENT counter of table habits
    completions,          \* table habit_completions of the store, in insertion order
    now,                  \* the wall clock of the CLI: datetime.now(); date.today() is
                          \* its date
    shadow,               \* habit id -> in-memory Habit progress fed the same check-offs
    cli,                  \* the last CLI flow and its outcome
    runs,                 \* habit id -> check_off_flow runs that selected the habit
    rowlist,              \* the list of rows handed to the analytics functions
    result,               \* the last call of a pure function: arguments and value
    users,                \* table users of the store, in id order
    user_call,            \* the last call of save_user and its outcome
    reminders             \* the scheduler of module schedule, the runner threads of
                          \* the started reminders, the hour and the messages printed

vars == <<habit, hist, row, habits, next_id, completions, now, shadow, cli, runs,
          rowlist, result, users, user_call, reminders>>

\* what the engine and the flows of the CLI never touch
other_vars == <<rowlist, result, users, user_call>>

engine_vars == <<habit, hist>>
store_vars == <<habits, next_id, completions, now, shadow, cli, runs>>

-----------------------------------------------------------------------------
(* Bounds *)

\* largest streak the model lets a habit reach
MaxStreak == 4
\* days in the first window of dates (starts 2024-01-27, covers Feb 29 2024)
WindowA == 35
\* days in the second window of dates (starts 2024-12-27, covers Feb 28 2025)
WindowB == 92
\* days the CLI clock may advance over a session (from 2024-01-27)
ClockDays == 35
\* habits the user may add to the five demo habits
MaxHabits == 1
\* check-offs the CLI may log in a session
MaxCheckOffs == 2
\* rows in a list handed to the analytics functions
MaxRows == 2
\* largest streak of a row handed to the analytics functions
MaxRowStreak == 2
\* users the store may hold
MaxUsers == 3
\* habits the user may delete in a session
MaxDeletes == 1
\* calls of check_off whose dates are kept
MaxCalls == 4
\* users seed_demo_habits is called for
MaxSeedUsers == 2
\* Reminder objects that are started
MaxReminders == 2
\* half days the clock of the reminder threads may advance
MaxHalfDays == 2
\* single habits saved next to the seeded ones
MaxSeedSaves == 2

-----------------------------------------------------------------------------
(* Values *)

\* Python's None, SQL NULL
None == [none |-> TRUE]
NoRow == [norow |-> TRUE]
Periodicities == {"daily", "weekly", "monthly"}
\* no Reminder started: the scheduler has no job, nothing was printed
NoReminders ==
    [now |-> 0, jobs |-> <<>>, pc |-> <<>>, pending |-> <<>>, job |-> <<>>,
     printed |-> <<>>]
\* the session before main has run
IdleCli ==
    [pc |-> "start", choice |-> "", op |-> "none", outcome |-> "none", habit_id |-> 0,
     input |-> None]

-----------------------------------------------------------------------------
(* datetime.date *)

date(y, m, d) == [year |-> y, month |-> m, day |-> d]

is_leap(y) == y % 4 = 0 /\ (y % 100 # 0 \/ y % 400 = 0)

DAYS_IN_MONTH == <<31, 28, 31, 30, 31, 30, 31, 31, 30, 31, 30, 31>>
DAYS_BEFORE_MONTH == <<0, 31, 59, 90, 120, 151, 181, 212, 243, 273, 304, 334>>

\* calendar.monthrange(year, month)[1]
monthrange(y, m) == IF m = 2 /\ is_leap(y) THEN 29 ELSE DAYS_IN_MONTH[m]

days_before_year(y) ==
    LET p == y - 1 IN p * 365 + (p \div 4) - (p \div 100) + (p \div 400)

days_before_month(y, m) ==
    DAYS_BEFORE_MONTH[m] + (IF m > 2 /\ is_leap(y) THEN 1 ELSE 0)

\* date.toordinal()
toordinal(dt) == days_before_year(dt.year) + days_before_month(dt.year, dt.month) + dt.day

\* date.fromordinal(n)
fromordinal(n) ==
    LET n0   == n - 1
        n400 == n0 \div 146097
        r400 == n0 % 146097
        n100 == r400 \div 36524
        r100 == r400 % 36524
        n4   == r100 \div 1461
        r4   == r100 % 1461
        n1   == r4 \div 365
        r1   == r4 % 365
        y    == n400 * 400 + 1 + n100 * 100 + n4 * 4 + n1
    IN  IF n1 = 4 \/ n100 = 4
        THEN date(y - 1, 12, 31)
        ELSE LET leap == n1 = 3 /\ (n4 # 24 \/ n100 = 3)
                 m0   == (r1 + 50) \div 32
                 p0   == DAYS_BEFORE_MONTH[m0] + (IF m0 > 2 /\ leap THEN 1 ELSE 0)
                 m    == IF p0 > r1 THEN m0 - 1 ELSE m0
                 p    == IF p0 > r1
                         THEN p0 - (DAYS_IN_MONTH[m] + (IF m = 2 /\ leap THEN 1 ELSE 0))
                         ELSE p0
             IN  date(y, m, r1 - p + 1)

\* date + timedelta(days=n)
plus_days(dt, n) == fromordinal(toordinal(dt) + n)

\* date comparison: (year, month, day) in lexicographic order
date_lt(a, b) ==
    \/ a.year < b.year
    \/ a.year = b.year /\ a.month < b.month
    \/ a.year = b.year /\ a.month = b.month /\ a.day < b.day

date_gt(a, b) == date_lt(b, a)

\* date.isoformat(): the text "YYYY-MM-DD", zero padded
isoformat(dt) == [iso |-> dt.year * 10000 + dt.month * 100 + dt.day]

\* datetime.fromisoformat(s).date()
fromisoformat(s) == date(s.iso \div 10000, (s.iso \div 100) % 100, s.iso % 100)

\* datetime(year, month, day, hour, minute, second)
datetime(d, h, mi, sec) ==
    [year |-> d.year, month |-> d.month, day |-> d.day,
     hour |-> h, minute |-> mi, second |-> sec]

\* date.today(): the date of the wall clock
date_today(clock) == date(clock.year, clock.month, clock.day)

\* datetime comparison: the date first, then the time of day
datetime_lt(a, b) ==
    \/ date_lt(date_today(a), date_today(b))
    \/ /\ date_today(a) = date_today(b)
       /\ a.hour * 3600 + a.minute * 60 + a.second
            < b.hour * 3600 + b.minute * 60 + b.second

\* datetime.isoformat(timespec="seconds"): the text "YYYY-MM-DDTHH:MM:SS"
isoformat_seconds(dtm) ==
    [iso |-> dtm.year * 10000 + dtm.month * 100 + dtm.day,
     time |-> dtm.hour * 10000 + dtm.minute * 100 + dtm.second]

-----------------------------------------------------------------------------
(* Dates the model draws inputs from *)

WindowAStart == date(2024, 1, 27)
WindowBStart == date(2024, 12, 27)

\* the time of day the clock of the model stops on: 09:30:15
ClockTime == [h |-> 9, mi |-> 30, sec |-> 15]

\* the clock when the session starts: the first day of window A at that time
ClockStart == datetime(WindowAStart, ClockTime.h, ClockTime.mi, ClockTime.sec)

\* the days of a month the model uses: the month's end and start (runs of
\* consecutive days, clamped month ends) and a chain of days 7 apart
DaysOfMonth == {1, 6, 7, 13, 20, 27, 28, 29, 30, 31}

Window(start, n) ==
    {dt \in {plus_days(start, i) : i \in 0..(n - 1)} : dt.day \in DaysOfMonth}

Dates == Window(WindowAStart, WindowA) \cup Window(WindowBStart, WindowB)

\* what date.today() may return when check_off is called without a date
Clocks == Window(WindowAStart, WindowA)

-----------------------------------------------------------------------------
(* Habit (app/models/habit.py) *)

\* the ValueError that from_form raises
ValueError == [error |-> "ValueError"]

\* Habit.from_form: an unknown periodicity is rejected; otherwise the progress
\* fields take the dataclass defaults
from_form(p) ==
    IF p \notin Periodicities THEN ValueError
    ELSE [periodicity |-> p, completed |-> FALSE, streak |-> 0,
          last_completed_date |-> None]

\* _expected_next_date with the weekly step written as one day
expected_next_date_weekly_as_day(h) ==
    IF h.last_completed_date = None THEN None
    ELSE IF h.periodicity = "monthly"
    THEN LET m0    == h.last_completed_date.month + 1
             year  == IF m0 = 13 THEN h.last_completed_date.year + 1
                      ELSE h.last_completed_date.year
             month == IF m0 = 13 THEN 1 ELSE m0
             last_day == monthrange(year, month)
         IN  date(year, month, IF h.last_completed_date.day < last_day
                               THEN h.last_completed_date.day ELSE last_day)
    ELSE plus_days(h.last_completed_date, 1)

\* _expected_next_date without the year increment when the month rolls over
expected_next_date_no_rollover(h) ==
    IF h.last_completed_date = None THEN None
    ELSE IF h.periodicity = "daily" THEN plus_days(h.last_completed_date, 1)
    ELSE IF h.periodicity = "weekly" THEN plus_days(h.last_completed_date, 7)
    ELSE LET m0    == h.last_completed_date.month + 1
             year  == h.last_completed_date.year
             month == IF m0 = 13 THEN 1 ELSE m0
             last_day == monthrange(year, month)
         IN  date(year, month, IF h.last_completed_date.day < last_day
                               THEN h.last_completed_date.day ELSE last_day)

\* _expected_next_date taking the last day of the next month for a monthly habit
expected_next_date_month_end(h) ==
    IF h.last_completed_date = None THEN None
    ELSE IF h.periodicity = "daily" THEN plus_days(h.last_completed_date, 1)
    ELSE IF h.periodicity = "weekly" THEN plus_days(h.last_completed_date, 7)
    ELSE LET m0    == h.last_completed_date.month + 1
             year  == IF m0 = 13 THEN h.last_completed_date.year + 1
                      ELSE h.last_completed_date.year
             month == IF m0 = 13 THEN 1 ELSE m0
         IN  date(year, month, monthrange(year, month))

\* Habit._expected_next_date
expected_next_date(h) ==
    IF h.last_completed_date = None THEN None
    ELSE IF h.periodicity = "daily" THEN plus_days(h.last_completed_date, 1)
    ELSE IF h.periodicity = "weekly" THEN plus_days(h.last_completed_date, 7)
    ELSE LET m0       == h.last_completed_date.month + 1
             year     == IF m0 = 13 THEN h.last_completed_date.year + 1
                         ELSE h.last_completed_date.year
             month    == IF m0 = 13 THEN 1 ELSE m0
             last_day == monthrange(year, month)
             day      == IF h.last_completed_date.day < last_day
                         THEN h.last_completed_date.day ELSE last_day
         IN  date(year, month, day)

\* check_off with the on-time test folded into the late test (>=)
check_off_branch_ge(h, d) ==
    IF h.last_completed_date = None THEN "first"
    ELSE LET expected == expected_next_date(h) IN
         IF expected # None /\ (d = expected \/ date_gt(d, expected)) THEN "reset"
         ELSE "keep"

\* check_off resetting on every date other than the expected one
check_off_branch_ne(h, d) ==
    IF h.last_completed_date = None THEN "first"
    ELSE LET expected == expected_next_date(h) IN
         IF expected # None /\ d = expected THEN "increment"
         ELSE IF expected # None /\ d # expected THEN "reset"
         ELSE "keep"

\* the branch of Habit.check_off that a call takes
check_off_branch(h, d) ==
    IF h.last_completed_date = None THEN "first"
    ELSE LET expected == expected_next_date(h) IN
         IF expected # None /\ d = expected THEN "increment"
         ELSE IF expected # None /\ date_gt(d, expected) THEN "reset"
         ELSE "keep"

\* check_off whose first completion leaves the streak as it was
check_off_first_keeps(h, on_date, clock) ==
    LET d  == IF on_date = None THEN clock ELSE on_date
        br == check_off_branch(h, d)
        s  == IF br = "increment" THEN h.streak + 1
              ELSE IF br = "reset" THEN 1
              ELSE h.streak
    IN  [h EXCEPT !.streak = s, !.completed = TRUE, !.last_completed_date = d]

\* check_off whose late completion leaves the streak as it was
check_off_reset_keeps(h, on_date, clock) ==
    LET d  == IF on_date = None THEN clock ELSE on_date
        br == check_off_branch(h, d)
        s  == IF br = "first" THEN 1
              ELSE IF br = "increment" THEN h.streak + 1
              ELSE h.streak
    IN  [h EXCEPT !.streak = s, !.completed = TRUE, !.last_completed_date = d]

\* check_off whose late completion resets the streak to 0
check_off_reset_zero(h, on_date, clock) ==
    LET d  == IF on_date = None THEN clock ELSE on_date
        br == check_off_branch(h, d)
        s  == IF br = "first" THEN 1
              ELSE IF br = "increment" THEN h.streak + 1
              ELSE IF br = "reset" THEN 0
              ELSE h.streak
    IN  [h EXCEPT !.streak = s, !.completed = TRUE, !.last_completed_date = d]

\* check_off that refuses to move last_completed_date backwards
check_off_no_backdate(h, on_date, clock) ==
    LET d  == IF on_date = None THEN clock ELSE on_date
        br == check_off_branch(h, d)
        s  == IF br = "first" THEN 1
              ELSE IF br = "increment" THEN h.streak + 1
              ELSE IF br = "reset" THEN 1
              ELSE h.streak
    IN  [h EXCEPT !.streak = s, !.completed = TRUE,
                  !.last_completed_date =
                      IF h.last_completed_date # None /\ date_lt(d, h.last_completed_date)
                      THEN h.last_completed_date ELSE d]

\* check_off whose early completion leaves last_completed_date where it was
check_off_keep_no_anchor(h, on_date, clock) ==
    LET d  == IF on_date = None THEN clock ELSE on_date
        br == check_off_branch(h, d)
        s  == IF br = "first" THEN 1
              ELSE IF br = "increment" THEN h.streak + 1
              ELSE IF br = "reset" THEN 1
              ELSE h.streak
    IN  [h EXCEPT !.streak = s, !.completed = TRUE,
                  !.last_completed_date = IF br = "keep" THEN @ ELSE d]

\* check_off whose late completion marks the habit as not completed
check_off_reset_uncompletes(h, on_date, clock) ==
    LET d  == IF on_date = None THEN clock ELSE on_date
        br == check_off_branch(h, d)
        s  == IF br = "first" THEN 1
              ELSE IF br = "increment" THEN h.streak + 1
              ELSE IF br = "reset" THEN 1
              ELSE h.streak
    IN  [h EXCEPT !.streak = s, !.completed = (br # "reset"),
                  !.last_completed_date = d]

\* Habit.check_off(on_date), where clock is what date.today() returns
check_off(h, on_date, clock) ==
    LET d  == IF on_date = None THEN clock ELSE on_date
        br == check_off_branch(h, d)
        s  == IF br = "first" THEN 1
              ELSE IF br = "increment" THEN h.streak + 1
              ELSE IF br = "reset" THEN 1
              ELSE h.streak
    IN  [h EXCEPT !.streak = s, !.completed = TRUE, !.last_completed_date = d]

-----------------------------------------------------------------------------
(* The engine on one in-memory habit *)

\* where on_date lies relative to the previous last_completed_date
relation(h, d) ==
    IF h.last_completed_date = None THEN "none"
    ELSE IF d = h.last_completed_date THEN "same"
    ELSE IF date_lt(d, h.last_completed_date) THEN "before"
    ELSE "after"

NoCall == [op |-> "from_form", arg |-> None, on_date |-> None, branch |-> "none",
           streak0 |-> 0, rel |-> "none", run0 |-> 0, run |-> 0, day0 |-> 0]

\* length of the chain of check-offs, each exactly one period after the previous
\* one, that starts at the first check-off of a fresh habit; 0 once broken
run_after(h, d) ==
    IF h.last_completed_date = None /\ hist.op = "from_form" THEN 1
    ELSE IF hist.run > 0 /\ h.periodicity = "daily"
            /\ d = plus_days(h.last_completed_date, 1) THEN hist.run + 1
    ELSE IF hist.run > 0 /\ h.periodicity = "weekly"
            /\ d = plus_days(h.last_completed_date, 7) THEN hist.run + 1
    ELSE 0

\* one call of check_off on the habit, recorded in hist: the argument as passed,
\* on_date after line 56, the branch, the streak and chain length before the call,
\* and on a monthly continuation the day of month it continued from
Call(on_date, clock) ==
    LET d == IF on_date = None THEN clock ELSE on_date IN
    /\ check_off(habit, on_date, clock).streak <= MaxStreak
    /\ habit' = check_off(habit, on_date, clock)
    /\ hist' = [op |-> "check_off", arg |-> on_date, on_date |-> d,
                branch |-> check_off_branch(habit, d), streak0 |-> habit.streak,
                rel |-> relation(habit, d), run0 |-> hist.run,
                run |-> run_after(habit, d),
                day0 |-> IF habit.periodicity = "monthly"
                            /\ check_off_branch(habit, d) = "increment"
                         THEN habit.last_completed_date.day ELSE 0]

\* habit.check_off(on_date=d)
CheckOffOn ==
    /\ row = NoRow
    /\ \E d \in Dates : Call(d, d)
    /\ UNCHANGED <<row, store_vars, other_vars, reminders>>

\* habit.check_off(): on_date defaults to date.today()
CheckOffToday ==
    /\ row = NoRow
    /\ \E clock \in Clocks : Call(None, clock)
    /\ UNCHANGED <<row, store_vars, other_vars, reminders>>

NoResult == [op |-> "none"]

StoreIdle ==
    /\ rowlist = <<>>
    /\ result = NoResult
    /\ users = <<>>
    /\ user_call = NoResult
    /\ habits = <<>>
    /\ next_id = 1
    /\ completions = <<>>
    /\ now = ClockStart
    /\ shadow = <<>>
    /\ cli = IdleCli
    /\ runs = <<>>
    /\ reminders = NoReminders

\* a habit built by Habit.from_form
Init ==
    /\ \E p \in Periodicities : habit = from_form(p)
    /\ hist = NoCall
    /\ row = NoRow
    /\ StoreIdle

Next == CheckOffOn \/ CheckOffToday

Spec == Init /\ [][Next]_vars

-----------------------------------------------------------------------------
(* The engine with the dates of all its check-offs kept *)

\* the dates check_off is called with
DatedInputs ==
    {date(2024, 1, 27), date(2024, 1, 28), date(2024, 1, 29), date(2024, 2, 3),
     date(2024, 2, 27), date(2024, 2, 29)}

\* habit.check_off(on_date=d); result keeps the dates of the calls so far
DatedCheckOff ==
    /\ row = NoRow
    /\ result.calls < MaxCalls
    /\ \E d \in DatedInputs :
          /\ Call(d, d)
          /\ result' = [op |-> "check_off", dates |-> result.dates \cup {d},
                        calls |-> result.calls + 1]
    /\ UNCHANGED <<row, store_vars, rowlist, users, user_call, reminders>>

\* a habit built by Habit.from_form, never checked off
InitDated ==
    /\ \E p \in Periodicities : habit = from_form(p)
    /\ hist = NoCall
    /\ row = NoRow
    /\ rowlist = <<>>
    /\ result = [op |-> "none", dates |-> {}, calls |-> 0]
    /\ users = <<>>
    /\ user_call = NoResult
    /\ habits = <<>>
    /\ next_id = 1
    /\ completions = <<>>
    /\ now = ClockStart
    /\ shadow = <<>>
    /\ cli = IdleCli
    /\ runs = <<>>
    /\ reminders = NoReminders

NextDated == DatedCheckOff

SpecDated == InitDated /\ [][NextDated]_vars

-----------------------------------------------------------------------------
(* A habit rehydrated from a stored row (app/cli.py) *)

\* _rehydrate_habit_from_row where the streak column is not read back
rehydrate_habit_from_row_no_streak(r) ==
    [from_form(r.periodicity) EXCEPT
        !.completed = (r.completed # 0),
        !.last_completed_date =
            IF r.last_completed_date # None
            THEN fromisoformat(r.last_completed_date) ELSE None]

\* _rehydrate_habit_from_row: from_form on the row's strings, then streak,
\* completed and last_completed_date are each read from their own column
rehydrate_habit_from_row(r) ==
    [from_form(r.periodicity) EXCEPT
        !.streak = r.streak,
        !.completed = (r.completed # 0),
        !.last_completed_date =
            IF r.last_completed_date # None
            THEN fromisoformat(r.last_completed_date) ELSE None]

\* rows of table habits as its schema admits them: streak and
\* last_completed_date are independent columns
Rows ==
    [id : {1}, user_id : {1}, periodicity : Periodicities, completed : {0, 1},
     streak : 0..MaxStreak,
     last_completed_date : {None} \cup {isoformat(d) : d \in Dates}]

\* habit = _rehydrate_habit_from_row(row)
Rehydrate ==
    /\ row # NoRow
    /\ habit' = rehydrate_habit_from_row(row)
    /\ hist' = [NoCall EXCEPT !.op = "rehydrate"]
    /\ row' = NoRow
    /\ UNCHANGED <<store_vars, other_vars, reminders>>

\* a row in hand, before it is rehydrated
InitRow ==
    /\ row \in Rows
    /\ habit = from_form(row.periodicity)
    /\ hist = NoCall
    /\ StoreIdle

NextRow == Rehydrate \/ CheckOffOn \/ CheckOffToday

SpecRow == InitRow /\ [][NextRow]_vars

-----------------------------------------------------------------------------
(* The store (app/db/database.py) *)

\* Database.save_habit: INSERT INTO habits, the id taken from AUTOINCREMENT
save_habit(tbl, id, user_id, p, c, st, last) ==
    Append(tbl, [id |-> id, user_id |-> user_id, periodicity |-> p, completed |-> c,
                 streak |-> st, last_completed_date |-> last])

\* Database.fetch_habits_by_user: the user's rows, in id order
fetch_habits_by_user(tbl, user_id) ==
    SelectSeq(tbl, LAMBDA r : r.user_id = user_id)

\* Database.update_habit_progress: UPDATE habits SET completed, streak,
\* last_completed_date WHERE id
update_habit_progress(tbl, id, c, st, last) ==
    [i \in 1..Len(tbl) |->
        IF tbl[i].id = id
        THEN [tbl[i] EXCEPT !.completed = c, !.streak = st, !.last_completed_date = last]
        ELSE tbl[i]]

\* Database.save_completion: INSERT INTO habit_completions
save_completion(tbl, habit_id, completed_at) ==
    Append(tbl, [habit_id |-> habit_id, completed_at |-> completed_at])

-----------------------------------------------------------------------------
(* Analytics (app/analysis/analyse.py) *)

\* row.get(key, default)
get(r, key, default) == IF key \in DOMAIN r THEN r[key] ELSE default

\* _as_view: the HabitView of a row
as_view(r) ==
    [id |-> r.id, name |-> r.name,
     periodicity |-> get(r, "periodicity", "daily"),
     streak |-> get(r, "streak", 0),
     last_completed_date |-> get(r, "last_completed_date", None)]

\* _as_view that fills a missing periodicity into the row (row.setdefault)
as_view_row_setdefault(r) ==
    IF "periodicity" \in DOMAIN r THEN r
    ELSE [k \in DOMAIN r \cup {"periodicity"} |->
            IF k = "periodicity" THEN "daily" ELSE r[k]]

\* the row as _as_view leaves it: the row is only read (row[...], row.get)
as_view_row(r) == r

\* list_all_habits without its last row (an off-by-one in the traversal)
list_all_habits_short(rs) ==
    [i \in 1..(IF Len(rs) > 1 THEN Len(rs) - 1 ELSE Len(rs)) |-> as_view(rs[i])]

\* list_all_habits: list(map(_as_view, rows))
list_all_habits(rs) == [i \in 1..Len(rs) |-> as_view(rs[i])]

\* the rows as list_all_habits leaves them
list_all_habits_rows(rs) == [i \in 1..Len(rs) |-> as_view_row(rs[i])]

\* list_by_periodicity filtering on the view's periodicity (default filled in)
list_by_periodicity_on_view(rs, p) ==
    SelectSeq(list_all_habits(rs), LAMBDA v : v.periodicity = p)

\* list_by_periodicity: filter on r.get("periodicity") == periodicity, then map
list_by_periodicity(rs, p) ==
    LET kept == SelectSeq(rs, LAMBDA r : "periodicity" \in DOMAIN r /\ r.periodicity = p)
    IN  [i \in 1..Len(kept) |-> as_view(kept[i])]

\* max(views, key=streak) keeping the last of several maxima
py_max_last(vs, i, best) ==
    LET Scan[k \in 1..(Len(vs) + 1), b \in 1..Len(vs)] ==
            IF k > Len(vs) THEN b
            ELSE Scan[k + 1, IF vs[k].streak >= vs[b].streak THEN k ELSE b]
    IN  Scan[i, best]

\* max(views, key=lambda v: v.streak): scan from position i with the best so far
\* at position best; a later item replaces it only when strictly greater
py_max(vs, i, best) ==
    LET Scan[k \in 1..(Len(vs) + 1), b \in 1..Len(vs)] ==
            IF k > Len(vs) THEN b
            ELSE Scan[k + 1, IF vs[k].streak > vs[b].streak THEN k ELSE b]
    IN  Scan[i, best]

\* longest_run_streak: (None, 0) for no rows, else (top.id, top.streak)
longest_run_streak(rs) ==
    LET views == list_all_habits(rs) IN
    IF views = <<>> THEN <<None, 0>>
    ELSE LET top == views[py_max(views, 1, 1)] IN <<top.id, top.streak>>

\* longest_run_streak_for that returns the last row with the id
longest_run_streak_for_last(rs, habit_id) ==
    LET hits == {i \in 1..Len(rs) : rs[i].id = habit_id} IN
    IF hits = {} THEN 0
    ELSE get(rs[CHOOSE i \in hits : \A j \in hits : j <= i], "streak", 0)

\* longest_run_streak_for: next(r for r in rows if r["id"] == habit_id), else 0
longest_run_streak_for(rs, habit_id) ==
    LET Find[k \in 1..(Len(rs) + 1)] ==
            IF k > Len(rs) THEN 0
            ELSE IF rs[k].id = habit_id THEN k
            ELSE Find[k + 1]
        match == Find[1]
    IN  IF match # 0 THEN get(rs[match], "streak", 0) ELSE 0

\* the rows the model hands to the analytics functions: rows of table habits,
\* and rows that carry no periodicity field
AnalyticsRows ==
    LET base == [id : 1..2, name : {"Read", "Run"}, streak : 0..MaxRowStreak]
        last(st) == IF st = 0 THEN None ELSE isoformat(plus_days(WindowAStart, st))
    IN  {[id |-> b.id, name |-> b.name, streak |-> b.streak,
          last_completed_date |-> last(b.streak)] : b \in base}
        \cup {[id |-> b.id, name |-> b.name, streak |-> b.streak,
               last_completed_date |-> last(b.streak), periodicity |-> p] :
                  b \in base, p \in {"daily", "weekly"}}

RowLists == UNION {[1..n -> AnalyticsRows] : n \in 0..MaxRows}

\* the rows as list_by_periodicity leaves them: the filter reads every row,
\* _as_view the rows that pass it
list_by_periodicity_rows(rs, p) ==
    [i \in 1..Len(rs) |->
        IF "periodicity" \in DOMAIN rs[i] /\ rs[i].periodicity = p
        THEN as_view_row(rs[i]) ELSE rs[i]]

\* what an analytics call leaves alone
AnalyticsFrame == UNCHANGED <<engine_vars, row, store_vars, users, user_call, reminders>>

\* views = list_all_habits(rows)
ListAllHabits ==
    /\ result' = [op |-> "list_all_habits", arg |-> None,
                  value |-> list_all_habits(rowlist)]
    /\ rowlist' = list_all_habits_rows(rowlist)
    /\ AnalyticsFrame

\* views = list_by_periodicity(rows, p)
ListByPeriodicity ==
    /\ \E p \in {"daily", "weekly", "Daily"} :
          /\ result' = [op |-> "list_by_periodicity", arg |-> p,
                        value |-> list_by_periodicity(rowlist, p)]
          /\ rowlist' = list_by_periodicity_rows(rowlist, p)
    /\ AnalyticsFrame

\* habit_id, streak = longest_run_streak(rows)
LongestRunStreak ==
    /\ result' = [op |-> "longest_run_streak", arg |-> None,
                  value |-> longest_run_streak(rowlist)]
    /\ rowlist' = list_all_habits_rows(rowlist)
    /\ AnalyticsFrame

\* longest_run_streak_for(rows, habit_id)
LongestRunStreakFor ==
    /\ \E habit_id \in 1..3 :
          result' = [op |-> "longest_run_streak_for", arg |-> habit_id,
                     value |-> longest_run_streak_for(rowlist, habit_id)]
    /\ rowlist' = rowlist
    /\ AnalyticsFrame

\* a list of rows, before any analytics call
InitAnalytics ==
    /\ habit = from_form("daily")
    /\ hist = NoCall
    /\ row = NoRow
    /\ rowlist \in RowLists
    /\ result = NoResult
    /\ users = <<>>
    /\ user_call = NoResult
    /\ habits = <<>>
    /\ next_id = 1
    /\ completions = <<>>
    /\ now = ClockStart
    /\ shadow = <<>>
    /\ cli = IdleCli
    /\ runs = <<>>
    /\ reminders = NoReminders

NextAnalytics ==
    ListAllHabits \/ ListByPeriodicity \/ LongestRunStreak \/ LongestRunStreakFor

SpecAnalytics == InitAnalytics /\ [][NextAnalytics]_vars

-----------------------------------------------------------------------------
(* Habit.from_form on the strings of a form (app/models/habit.py) *)

\* datetime.strptime(start_date, "%Y-%m-%d"): a text of another shape, or a day
\* the calendar does not have, raises ValueError
strptime_date(s) ==
    IF "text" \in DOMAIN s THEN ValueError
    ELSE IF s.m < 1 \/ s.m > 12 THEN ValueError
    ELSE IF s.d < 1 \/ s.d > monthrange(s.y, s.m) THEN ValueError
    ELSE date(s.y, s.m, s.d)

\* datetime.strptime(reminder, "%H:%M").time()
strptime_time(s) ==
    IF "text" \in DOMAIN s THEN ValueError
    ELSE IF s.h < 0 \/ s.h > 23 \/ s.mi < 0 \/ s.mi > 59 THEN ValueError
    ELSE [hour |-> s.h, minute |-> s.mi]

\* "if reminder:": None and the empty string are skipped
truthy(s) == s # None /\ s # [text |-> ""]

\* from_form that takes any periodicity
from_form_strings_any(name, start_date, p, reminder) ==
    LET start_dt      == strptime_date(start_date)
        reminder_time == IF truthy(reminder) THEN strptime_time(reminder) ELSE None
    IN  IF start_dt = ValueError \/ reminder_time = ValueError THEN ValueError
        ELSE [name |-> name, start_date |-> start_dt, reminder |-> reminder_time,
              periodicity |-> p, completed |-> FALSE, streak |-> 0,
              last_completed_date |-> None]

\* Habit.from_form(name, description, goal, start_date, periodicity, reminder):
\* the date is parsed, then the reminder if one is given, then the periodicity
\* is validated; the habit gets the dataclass defaults for its progress
from_form_strings(name, start_date, p, reminder) ==
    LET start_dt      == strptime_date(start_date)
        reminder_time == IF truthy(reminder) THEN strptime_time(reminder) ELSE None
        h             == from_form(p)
    IN  IF start_dt = ValueError THEN ValueError
        ELSE IF reminder_time = ValueError THEN ValueError
        ELSE IF h = ValueError THEN ValueError
        ELSE [name |-> name, start_date |-> start_dt, reminder |-> reminder_time,
              periodicity |-> h.periodicity, completed |-> h.completed,
              streak |-> h.streak, last_completed_date |-> h.last_completed_date]

\* what a form may hold
NameInputs == {"Read", "Run"}
StartDateInputs ==
    {[text |-> "06.01.2025"], [y |-> 2025, m |-> 1, d |-> 6],
     [y |-> 2024, m |-> 2, d |-> 29], [y |-> 2025, m |-> 2, d |-> 29]}
FormPeriodicityInputs == {"daily", "weekly", "monthly", "Daily", "yearly", ""}
ReminderInputs ==
    {None, [text |-> ""], [text |-> "9am"], [h |-> 9, mi |-> 0], [h |-> 24, mi |-> 0]}

\* Habit.from_form(...) on a form
FromForm ==
    /\ \E name \in NameInputs, start_date \in StartDateInputs,
          p \in FormPeriodicityInputs, reminder \in ReminderInputs :
          result' = [op |-> "from_form", name |-> name, start_date |-> start_date,
                     periodicity |-> p, reminder |-> reminder,
                     value |-> from_form_strings(name, start_date, p, reminder)]
    /\ UNCHANGED <<rowlist, engine_vars, row, store_vars, users, user_call, reminders>>

InitForm ==
    /\ habit = from_form("daily")
    /\ hist = NoCall
    /\ row = NoRow
    /\ StoreIdle

NextForm == FromForm

SpecForm == InitForm /\ [][NextForm]_vars

-----------------------------------------------------------------------------
(* The users table (app/db/database.py) *)

\* what a call raises: "none" when it returns
IntegrityError == "IntegrityError"

\* INSERT INTO users(name, email) on a table without the UNIQUE constraint
save_user_no_unique(tbl, name, email) ==
    [users |-> Append(tbl, [id |-> Len(tbl) + 1, name |-> name, email |-> email]),
     raises |-> "none", value |-> Len(tbl) + 1]

\* Database.save_user(name, email): the INSERT violates email TEXT NOT NULL UNIQUE
\* when a stored user has the same email (compared byte for byte), raises
\* sqlite3.IntegrityError before the commit and stores nothing; otherwise the new
\* row gets the next AUTOINCREMENT id, which is returned
save_user(tbl, name, email) ==
    IF \E i \in 1..Len(tbl) : tbl[i].email = email
    THEN [users |-> tbl, raises |-> IntegrityError, value |-> 0]
    ELSE [users |-> Append(tbl, [id |-> Len(tbl) + 1, name |-> name, email |-> email]),
          raises |-> "none", value |-> Len(tbl) + 1]

UserNames == {"A", "B"}
Emails == {"a@ex.com", "A@ex.com", "b@ex.com"}

\* db.save_user(name, email)
SaveUser ==
    /\ Len(users) < MaxUsers
    /\ \E name \in UserNames, email \in Emails :
          LET r == save_user(users, name, email) IN
          /\ users' = r.users
          /\ user_call' = [op |-> "save_user", name |-> name, email |-> email,
                           before |-> users, raises |-> r.raises, value |-> r.value]
    /\ UNCHANGED <<rowlist, result, engine_vars, row, store_vars, reminders>>

\* a freshly initialized database
InitUsers ==
    /\ habit = from_form("daily")
    /\ hist = NoCall
    /\ row = NoRow
    /\ StoreIdle

NextUsers == SaveUser

SpecUsers == InitUsers /\ [][NextUsers]_vars

-----------------------------------------------------------------------------
(* The CLI session (app/cli.py) *)

\* the user created at startup
UserId == 1

\* the periodicities of the five demo habits, in insertion order
DemoPeriodicities == <<"daily", "daily", "daily", "weekly", "weekly">>

\* the days of a month the clock of the model stops on
ClockDaysOfMonth == {27, 31, 1, 3, 29}

\* the values date.today() takes over the session
ClockDates ==
    {dt \in {plus_days(WindowAStart, i) : i \in 0..(ClockDays - 1)} :
        dt.day \in ClockDaysOfMonth}

\* the values datetime.now() takes over the session: the days of the clock
\* at that time, and the first midnight of the session
ClockDateTimes ==
    {datetime(d, ClockTime.h, ClockTime.mi, ClockTime.sec) : d \in ClockDates}
    \cup {datetime(plus_days(WindowAStart, 1), 0, 0, 0)}

\* what a read of datetime.now() may return when the clock stood at clock a
\* moment ago: the same instant, or a later one up to the midnight that has
\* passed since
later_reads(clock) ==
    {dtm \in ClockDateTimes :
        /\ ~datetime_lt(dtm, clock)
        /\ ~datetime_lt(datetime(plus_days(date_today(clock), 1), 0, 0, 0), dtm)}

\* what the user types at a selection prompt: a number or other text
SelectionInputs == {[text |-> "abc"]} \cup {[int |-> n] : n \in {0, 1, 9}}

\* what the user types at the selection prompt of delete_habit_flow
DeleteSelectionInputs == {[text |-> "abc"]} \cup {[int |-> n] : n \in {0, 9}}

\* what the user types at the prompts of add_habit_flow
AddHabitInputs ==
    {[start_date |-> [y |-> 2024, m |-> 1, d |-> 27], periodicity |-> "monthly",
      reminder |-> [h |-> 9, mi |-> 0]],
     [start_date |-> [y |-> 2024, m |-> 1, d |-> 27], periodicity |-> "Weekly",
      reminder |-> [text |-> ""]],
     [start_date |-> [text |-> "27.01.2024"], periodicity |-> "",
      reminder |-> [text |-> ""]],
     [start_date |-> [y |-> 2024, m |-> 1, d |-> 27], periodicity |-> "monthly",
      reminder |-> [text |-> "9am"]]}

\* what the user types at the prompts of the flows that only read
ReadSelectionInputs == {[text |-> "abc"], [int |-> 1]}

\* what the user types at the prompt of list_by_periodicity_flow
PeriodInputs == {[text |-> "Daily"], [text |-> "yearly"]}

\* what the user types at "Enter your choice: "
MenuChoices == {"1", "2", "3", "4", "5", "6", "7", "8", "9", "10", "0", "exit"}

\* the branch of main's if/elif chain a choice takes
dispatch_else_exits(choice) ==
    CASE choice = "1" -> "add"
      [] choice = "2" -> "list"
      [] choice = "3" -> "check_off"
      [] choice = "4" -> "summary"
      [] choice = "5" -> "history"
      [] choice = "6" -> "filter"
      [] choice = "7" -> "longest"
      [] choice = "8" -> "longest_for"
      [] choice = "9" -> "delete"
      [] OTHER -> "exit"

dispatch(choice) ==
    CASE choice = "1" -> "add"
      [] choice = "2" -> "list"
      [] choice = "3" -> "check_off"
      [] choice = "4" -> "summary"
      [] choice = "5" -> "history"
      [] choice = "6" -> "filter"
      [] choice = "7" -> "longest"
      [] choice = "8" -> "longest_for"
      [] choice = "9" -> "delete"
      [] choice = "10" -> "exit"
      [] OTHER -> "invalid"

\* the choice that leads to a flow
chosen(op) == CHOOSE choice \in MenuChoices : dispatch(choice) = op

\* str.lower() on what is typed at the periodicity prompt
lower(s) ==
    CASE s = "Daily" -> "daily"
      [] s = "Weekly" -> "weekly"
      [] s = "Monthly" -> "monthly"
      [] OTHER -> s

\* rows[selected] with Python's indexing: 0 when it raises IndexError,
\* else the position (from 1) of the row it yields
py_index(n, selected) ==
    IF selected >= 0 /\ selected < n THEN selected + 1
    ELSE IF selected < 0 /\ selected >= 0 - n THEN n + selected + 1
    ELSE 0

\* selected = int(input) - 1; row = rows[selected]: 0 on ValueError or
\* IndexError, else the position (from 1) of the selected row
select(rows, input) ==
    IF "int" \in DOMAIN input THEN py_index(Len(rows), input.int - 1) ELSE 0

\* the session is back at the menu after a flow
back_at_menu(op, outcome, habit_id, input) ==
    [pc |-> "menu", choice |-> chosen(op), op |-> op, outcome |-> outcome,
     habit_id |-> habit_id, input |-> input]

\* seed_demo_habits without its early return
seed_demo_habits_always(tbl, id, user_id) ==
    tbl \o [i \in 1..Len(DemoPeriodicities) |->
               [id |-> id + i - 1, user_id |-> user_id,
                periodicity |-> from_form(DemoPeriodicities[i]).periodicity,
                completed |-> 0, streak |-> 0, last_completed_date |-> None]]

\* seed_demo_habits: five habits for a user who has none
seed_demo_habits(tbl, id, user_id) ==
    IF fetch_habits_by_user(tbl, user_id) # <<>> THEN tbl
    ELSE tbl \o [i \in 1..Len(DemoPeriodicities) |->
                    [id |-> id + i - 1, user_id |-> user_id,
                     periodicity |-> from_form(DemoPeriodicities[i]).periodicity,
                     completed |-> 0, streak |-> 0, last_completed_date |-> None]]

\* main up to the menu loop, with the name and email typed at its prompts:
\* create_user saves the user, seed_demo_habits seeds the new user's habits.
\* Nothing catches what save_user raises: the exception leaves main and the
\* process ends before the menu is shown
main_startup(name, email) ==
    LET r == save_user(users, name, email) IN
    /\ cli.pc = "start"
    /\ users' = r.users
    /\ user_call' = [op |-> "save_user", name |-> name, email |-> email,
                     before |-> users, raises |-> r.raises, value |-> r.value]
    /\ IF r.raises # "none"
       THEN /\ cli' = [IdleCli EXCEPT !.pc = "crashed", !.op = "startup",
                                      !.outcome = r.raises]
            /\ UNCHANGED <<habits, next_id, shadow, runs>>
       ELSE /\ habits' = seed_demo_habits(habits, next_id, r.value)
            /\ next_id' = next_id + (Len(habits') - Len(habits))
            /\ shadow' = shadow \o [i \in 1..(next_id' - next_id) |->
                                       from_form(habits'[Len(habits) + i].periodicity)]
            /\ runs' = runs \o [i \in 1..(next_id' - next_id) |-> 0]
            /\ cli' = [IdleCli EXCEPT !.pc = "menu", !.op = "startup", !.outcome = "ok"]
    /\ UNCHANGED <<rowlist, result, engine_vars, row, completions, now, reminders>>

\* the first launch on a new database file
Startup == main_startup("A", "a@ex.com")

\* add_habit_flow with what is typed at its prompts
add_habit_flow(input) ==
    LET p        == IF input.periodicity = "" THEN "daily" ELSE input.periodicity
        reminder == IF input.reminder = [text |-> ""] THEN None ELSE input.reminder
        h        == from_form_strings("Read", input.start_date, p, reminder)
    IN  /\ next_id - 1 < Len(DemoPeriodicities) + MaxHabits
        /\ IF h = ValueError
           THEN /\ cli' = back_at_menu("add", "error", 0, input)
                /\ UNCHANGED <<habits, next_id, shadow, runs>>
           ELSE /\ habits' = save_habit(habits, next_id, UserId, h.periodicity, 0, 0, None)
                /\ next_id' = next_id + 1
                /\ shadow' = Append(shadow, from_form(h.periodicity))
                /\ runs' = Append(runs, 0)
                /\ cli' = back_at_menu("add", "ok", next_id, input)
        /\ UNCHANGED <<other_vars, engine_vars, row, completions, now, reminders>>

\* choice 1
AddHabit ==
    /\ cli.pc = "menu"
    /\ \E choice \in MenuChoices, input \in AddHabitInputs :
          dispatch(choice) = "add" /\ add_habit_flow(input)

\* the check-offs of the session so far
RECURSIVE Total(_)
Total(counts) == IF counts = <<>> THEN 0 ELSE Head(counts) + Total(Tail(counts))

\* the completion log after check_off_flow has logged its event, whatever
\* check_off did to the streak; only a streak that moved is logged
logged_if_streak_moved(tbl, r, h, now_iso) ==
    IF h.streak = r.streak THEN tbl
    ELSE save_completion(tbl, r.id, now_iso)

\* db.save_completion(habit_id=row["id"], completed_at_iso=now_iso)
logged(tbl, r, h, now_iso) == save_completion(tbl, r.id, now_iso)

\* check_off_flow with what the user types at the selection prompt
check_off_flow(input) ==
    LET rows == fetch_habits_by_user(habits, UserId)
        pos  == select(rows, input)
    IN  /\ Total(runs) < MaxCheckOffs
        /\ IF rows = <<>>
           THEN /\ cli' = back_at_menu("check_off", "no habits", 0, input)
                /\ UNCHANGED <<habits, completions, shadow, runs, now>>
           ELSE IF pos = 0
           THEN /\ cli' = back_at_menu("check_off", "invalid", 0, input)
                /\ UNCHANGED <<habits, completions, shadow, runs, now>>
           ELSE LET r == rows[pos]
                    today == date_today(now)
                    h == check_off(rehydrate_habit_from_row(r), today, today)
                IN  /\ habits' = update_habit_progress(
                                     habits, r.id, IF h.completed THEN 1 ELSE 0,
                                     h.streak, isoformat(h.last_completed_date))
                    /\ \E read \in later_reads(now) :
                          /\ completions' = logged(completions, r, h,
                                                   isoformat_seconds(read))
                          /\ now' = read
                    /\ shadow' = [shadow EXCEPT ![r.id] = check_off(@, today, today)]
                    /\ runs' = [runs EXCEPT ![r.id] = @ + 1]
                    /\ cli' = back_at_menu("check_off", "ok", r.id, input)
        /\ UNCHANGED <<other_vars, engine_vars, row, next_id, reminders>>

\* choice 3
CheckOffFlow ==
    /\ cli.pc = "menu"
    /\ \E choice \in MenuChoices, input \in SelectionInputs :
          dispatch(choice) = "check_off" /\ check_off_flow(input)

\* the rows a delete leaves when it only removes the habit
delete_habit_keeps_log(tbl, comps, id) ==
    [habits |-> SelectSeq(tbl, LAMBDA r : r.id # id), completions |-> comps]

\* Database.delete_habit: the habit's completion events go with the habit
delete_habit(tbl, comps, id) ==
    [habits |-> SelectSeq(tbl, LAMBDA r : r.id # id),
     completions |-> SelectSeq(comps, LAMBDA c : c.habit_id # id)]

\* delete_habit_flow with what the user types at the selection prompt
delete_habit_flow(input) ==
    LET rows == fetch_habits_by_user(habits, UserId)
        pos  == select(rows, input)
    IN  /\ (next_id - 1) - Len(habits) < MaxDeletes
        /\ IF rows = <<>>
           THEN /\ cli' = back_at_menu("delete", "no habits", 0, input)
                /\ UNCHANGED <<habits, completions>>
           ELSE IF pos = 0
           THEN /\ cli' = back_at_menu("delete", "invalid", 0, input)
                /\ UNCHANGED <<habits, completions>>
           ELSE LET db == delete_habit(habits, completions, rows[pos].id)
                IN  /\ habits' = db.habits
                    /\ completions' = db.completions
                    /\ cli' = back_at_menu("delete", "ok", rows[pos].id, input)
        /\ UNCHANGED <<other_vars, engine_vars, row, next_id, now, shadow, runs, reminders>>

\* choice 9
DeleteHabit ==
    /\ cli.pc = "menu"
    /\ \E choice \in MenuChoices, input \in DeleteSelectionInputs :
          dispatch(choice) = "delete" /\ delete_habit_flow(input)

\* what a flow that only reads and prints leaves alone
ReadOnly ==
    UNCHANGED <<other_vars, engine_vars, row, habits, next_id, completions, now,
                shadow, runs, reminders>>

\* list_habits_flow
list_habits_flow ==
    LET rows == fetch_habits_by_user(habits, UserId)
    IN  /\ cli' = back_at_menu("list", IF rows = <<>> THEN "no habits" ELSE "ok", 0, None)
        /\ ReadOnly

\* choice 2
ListHabits ==
    /\ cli.pc = "menu"
    /\ \E choice \in MenuChoices : dispatch(choice) = "list" /\ list_habits_flow

\* analytics_summary_flow
analytics_summary_flow ==
    /\ cli' = back_at_menu("summary", "ok", 0, None)
    /\ ReadOnly

\* choice 4
AnalyticsSummary ==
    /\ cli.pc = "menu"
    /\ \E choice \in MenuChoices : dispatch(choice) = "summary" /\ analytics_summary_flow

\* view_history_flow with what the user types at the selection prompt
view_history_flow(input) ==
    LET rows == fetch_habits_by_user(habits, UserId)
        pos  == select(rows, input)
    IN  /\ cli' = IF rows = <<>> THEN back_at_menu("history", "no habits", 0, input)
                  ELSE IF pos = 0 THEN back_at_menu("history", "invalid", 0, input)
                  ELSE back_at_menu("history", "ok", rows[pos].id, input)
        /\ ReadOnly

\* choice 5
ViewHistory ==
    /\ cli.pc = "menu"
    /\ \E choice \in MenuChoices, input \in ReadSelectionInputs :
          dispatch(choice) = "history" /\ view_history_flow(input)

\* list_by_periodicity_flow with what the user types at the periodicity prompt
list_by_periodicity_flow(input) ==
    LET period == lower(input.text)
    IN  /\ cli' = IF period \notin {"daily", "weekly", "monthly"}
                  THEN back_at_menu("filter", "invalid", 0, input)
                  ELSE back_at_menu("filter", "ok", 0, input)
        /\ ReadOnly

\* choice 6
ListByPeriodicityFlow ==
    /\ cli.pc = "menu"
    /\ \E choice \in MenuChoices, input \in PeriodInputs :
          dispatch(choice) = "filter" /\ list_by_periodicity_flow(input)

\* choice 7: longest_run_streak over the user's rows is printed
LongestOverall ==
    /\ cli.pc = "menu"
    /\ \E choice \in MenuChoices :
          /\ dispatch(choice) = "longest"
          /\ cli' = back_at_menu("longest", "ok", 0, None)
    /\ ReadOnly

\* choice 8: a habit id is read, "continue" on ValueError, else
\* longest_run_streak_for over the user's rows is printed
LongestForHabit ==
    /\ cli.pc = "menu"
    /\ \E choice \in MenuChoices, input \in ReadSelectionInputs :
          /\ dispatch(choice) = "longest_for"
          /\ cli' = IF "int" \in DOMAIN input
                    THEN back_at_menu("longest_for", "ok", 0, input)
                    ELSE back_at_menu("longest_for", "invalid", 0, input)
    /\ ReadOnly

\* choice 10: break
Exit ==
    /\ cli.pc = "menu"
    /\ \E choice \in MenuChoices :
          /\ dispatch(choice) = "exit"
          /\ cli' = [IdleCli EXCEPT !.pc = "exit", !.choice = choice, !.op = "exit",
                                    !.outcome = "ok"]
    /\ ReadOnly

\* any other choice: "Invalid choice. Try again."
InvalidChoice ==
    /\ cli.pc = "menu"
    /\ \E choice \in MenuChoices :
          /\ dispatch(choice) = "invalid"
          /\ cli' = [IdleCli EXCEPT !.pc = "menu", !.choice = choice, !.op = "invalid",
                                    !.outcome = "invalid"]
    /\ ReadOnly

\* the clock moves on while the session waits at the menu
Tick ==
    /\ cli.pc = "menu"
    /\ \E dtm \in ClockDateTimes : datetime_lt(now, dtm) /\ now' = dtm
    /\ UNCHANGED <<other_vars, engine_vars, row, habits, next_id, completions, shadow,
                   runs, cli, reminders>>

InitCli ==
    /\ habit = from_form("daily")
    /\ hist = NoCall
    /\ row = NoRow
    /\ StoreIdle

\* the flows that check off and add habits, over the days of the clock
NextCli == Startup \/ AddHabit \/ CheckOffFlow \/ Tick

SpecCli == InitCli /\ [][NextCli]_vars

\* main: the menu loop with all its choices; the clock moves only inside
\* check_off_flow, between its two reads
NextMenu ==
    \/ Startup \/ AddHabit \/ ListHabits \/ CheckOffFlow \/ AnalyticsSummary
    \/ ViewHistory \/ ListByPeriodicityFlow \/ LongestOverall \/ LongestForHabit
    \/ DeleteHabit \/ Exit \/ InvalidChoice

SpecMenu == InitCli /\ [][NextMenu]_vars

-----------------------------------------------------------------------------
(* Launches of the program on one database file (app/cli.py, main) *)

\* python -m app.cli: name and email are typed at the prompts of create_user
Launch ==
    /\ Len(users) < MaxUsers
    /\ \E name \in UserNames, email \in Emails : main_startup(name, email)

\* choice 10 right away
Quit ==
    /\ cli.pc = "menu"
    /\ cli' = [IdleCli EXCEPT !.pc = "exit", !.choice = "10", !.op = "exit",
                              !.outcome = "ok"]
    /\ ReadOnly

\* the process has ended; the program is launched again on habits.sqlite3,
\* whose tables persist (CREATE TABLE IF NOT EXISTS)
Relaunch ==
    /\ cli.pc \in {"exit", "crashed"}
    /\ cli' = IdleCli
    /\ ReadOnly

NextLaunches == Launch \/ Quit \/ Relaunch

SpecLaunches == InitCli /\ [][NextLaunches]_vars

-----------------------------------------------------------------------------
(* seed_demo_habits on the habits of several users (app/cli.py) *)

\* the users seed_demo_habits is called for
SeedUsers == 1..MaxSeedUsers

\* what a call on the habits table leaves alone
SeedFrame ==
    UNCHANGED <<engine_vars, row, completions, now, shadow, cli, runs, rowlist,
                users, user_call, reminders>>

\* seed_demo_habits(db, user)
SeedDemoHabits ==
    /\ \E user_id \in SeedUsers :
          /\ habits' = seed_demo_habits(habits, next_id, user_id)
          /\ next_id' = next_id + (Len(habits') - Len(habits))
          /\ result' = [op |-> "seed_demo_habits", user_id |-> user_id,
                        before |-> habits, saved |-> result.saved]
    /\ SeedFrame

\* db.save_habit(user_id=..., periodicity=..., completed=0, streak=0, ...):
\* one habit saved for a user, as add_habit_flow does
SaveOneHabit ==
    /\ result.saved < MaxSeedSaves
    /\ \E user_id \in SeedUsers, p \in {"daily", "monthly"} :
          /\ habits' = save_habit(habits, next_id, user_id, p, 0, 0, None)
          /\ next_id' = next_id + 1
          /\ result' = [op |-> "save_habit", user_id |-> user_id,
                        before |-> habits, saved |-> result.saved + 1]
    /\ SeedFrame

\* an empty habits table
InitSeed ==
    /\ habit = from_form("daily")
    /\ hist = NoCall
    /\ row = NoRow
    /\ rowlist = <<>>
    /\ result = [op |-> "none", user_id |-> 0, before |-> <<>>, saved |-> 0]
    /\ users = <<>>
    /\ user_call = NoResult
    /\ habits = <<>>
    /\ next_id = 1
    /\ completions = <<>>
    /\ now = ClockStart
    /\ shadow = <<>>
    /\ cli = IdleCli
    /\ runs = <<>>
    /\ reminders = NoReminders

NextSeed == SeedDemoHabits \/ SaveOneHabit

SpecSeed == InitSeed /\ [][NextSeed]_vars

-----------------------------------------------------------------------------
(* Reminder (app/models/reminder.py) *)
(* Every runner thread registers its job on the one module-level scheduler *)
(* of module schedule and polls that scheduler.  run_pending takes no lock: *)
(* it collects the jobs that are due, then runs them one by one, and a job  *)
(* is rescheduled only after its function has returned.  A step of a thread *)
(* is one of these stages; the threads interleave between stages.           *)

\* schedule.every(24).hours
Interval == 24

\* the Reminder objects, by habit id
ReminderIds == 1..MaxReminders

\* the positions of the jobs of the scheduler that are due at the given hour
\* (Job.should_run: the time has reached next_run), in the order run_pending runs them
RECURSIVE due_jobs(_, _, _)
due_jobs(jobs, hour, i) ==
    IF i > Len(jobs) THEN <<>>
    ELSE IF hour >= jobs[i].next_run THEN <<i>> \o due_jobs(jobs, hour, i + 1)
    ELSE due_jobs(jobs, hour, i + 1)

\* what the reminder threads never touch
ReminderFrame == UNCHANGED <<engine_vars, row, store_vars, other_vars>>

\* Reminder.start(): threading.Thread(target=runner, daemon=True).start()
StartReminder ==
    /\ \E r \in ReminderIds :
          /\ reminders.pc[r] = "new"
          /\ reminders' = [reminders EXCEPT !.pc[r] = "register"]
    /\ ReminderFrame

\* runner: schedule.every(24).hours.do(self.send_message)
RegisterJob ==
    /\ \E r \in ReminderIds :
          /\ reminders.pc[r] = "register"
          /\ reminders' =
                [reminders EXCEPT
                    !.jobs = Append(@, [reminder |-> r, since |-> reminders.now,
                                        next_run |-> reminders.now + Interval]),
                    !.pc[r] = "poll"]
    /\ ReminderFrame

\* runner: schedule.run_pending() collects the jobs that are due
CollectPending ==
    /\ \E r \in ReminderIds :
          /\ reminders.pc[r] = "poll"
          /\ LET due == due_jobs(reminders.jobs, reminders.now, 1) IN
             reminders' = [reminders EXCEPT
                              !.pending[r] = due,
                              !.pc[r] = IF due = <<>> THEN "sleep" ELSE "run"]
    /\ ReminderFrame

\* run_pending runs the next collected job: Job.run calls job_func, which is
\* send_message of the reminder that registered the job, and prints
RunJob ==
    /\ \E r \in ReminderIds :
          /\ reminders.pc[r] = "run"
          /\ LET j == Head(reminders.pending[r]) IN
             reminders' = [reminders EXCEPT
                              !.printed[reminders.jobs[j].reminder] = @ + 1,
                              !.job[r] = j,
                              !.pending[r] = Tail(@),
                              !.pc[r] = "ran"]
    /\ ReminderFrame

\* Job.run after job_func has returned: last_run = now, _schedule_next_run()
ScheduleNextRun ==
    /\ \E r \in ReminderIds :
          /\ reminders.pc[r] = "ran"
          /\ reminders' =
                [reminders EXCEPT
                    !.jobs[reminders.job[r]].next_run = reminders.now + Interval,
                    !.job[r] = 0,
                    !.pc[r] = IF reminders.pending[r] = <<>> THEN "sleep" ELSE "run"]
    /\ ReminderFrame

\* runner: time.sleep(1), then the loop polls again
Sleep ==
    /\ \E r \in ReminderIds :
          /\ reminders.pc[r] = "sleep"
          /\ reminders' = [reminders EXCEPT !.pc[r] = "poll"]
    /\ ReminderFrame

\* half a day passes
HalfDay ==
    /\ reminders.now < MaxHalfDays * (Interval \div 2)
    /\ reminders' = [reminders EXCEPT !.now = @ + (Interval \div 2)]
    /\ ReminderFrame

\* the Reminder objects exist, none is started
InitReminders ==
    /\ habit = from_form("daily")
    /\ hist = NoCall
    /\ row = NoRow
    /\ rowlist = <<>>
    /\ result = NoResult
    /\ users = <<>>
    /\ user_call = NoResult
    /\ habits = <<>>
    /\ next_id = 1
    /\ completions = <<>>
    /\ now = ClockStart
    /\ shadow = <<>>
    /\ cli = IdleCli
    /\ runs = <<>>
    /\ reminders = [now |-> 0, jobs |-> <<>>,
                    pc |-> [r \in ReminderIds |-> "new"],
                    pending |-> [r \in ReminderIds |-> <<>>],
                    job |-> [r \in ReminderIds |-> 0],
                    printed |-> [r \in ReminderIds |-> 0]]

NextReminders ==
    \/ StartReminder \/ RegisterJob \/ CollectPending \/ RunJob \/ ScheduleNextRun
    \/ Sleep \/ HalfDay

SpecReminders == InitReminders /\ [][NextReminders]_vars

-----------------------------------------------------------------------------
(* The expected next date as the specification words it *)

\* number of days of the month (y, m): the day before the first of the next month
LastDayOfMonth(y, m) ==
    LET k == y * 12 + m IN plus_days(date(k \div 12, (k % 12) + 1, 1), 0 - 1).day

\* same day of month in the following month, clamped to that month's last day
MonthlySuccessor(dt) ==
    LET k    == dt.year * 12 + dt.month
        y    == k \div 12
        m    == (k % 12) + 1
        last == LastDayOfMonth(y, m)
    IN  date(y, m, IF dt.day < last THEN dt.day ELSE last)

ExpectedNext(p, last) ==
    IF p = "daily" THEN plus_days(last, 1)
    ELSE IF p = "weekly" THEN plus_days(last, 7)
    ELSE MonthlySuccessor(last)

\* the step is a call check_off(on_date=d) with d given
CallWith == hist'.op = "check_off" /\ hist'.arg # None

-----------------------------------------------------------------------------
(* Claims about the streak engine *)

\* C1: for every periodicity and date d, check_off(on_date=d) on a habit with no
\* last_completed_date sets streak to 1, last_completed_date to d, completed to true.
C1_FirstCheckOff ==
    [][(CallWith /\ habit.last_completed_date = None)
         => /\ habit'.streak = 1
            /\ habit'.last_completed_date = hist'.arg
            /\ habit'.completed = TRUE]_vars

C1_Witness ==
    /\ hist.op = "check_off" /\ hist.branch = "first" /\ hist.arg # None
    /\ habit.periodicity = "monthly"
    /\ habit.last_completed_date = hist.arg

\* C2: with last_completed_date present, a check-off on the expected next date
\* (+1 day, +7 days, the monthly successor) increases streak by exactly 1.
C2_OnTimeIncrements ==
    [][(/\ CallWith
        /\ habit.last_completed_date # None
        /\ hist'.arg = ExpectedNext(habit.periodicity, habit.last_completed_date))
         => habit'.streak = habit.streak + 1]_vars

C2_Witness ==
    /\ hist.op = "check_off" /\ hist.branch = "increment" /\ hist.arg # None
    /\ habit.periodicity = "weekly"
    /\ hist.streak0 = 2 /\ habit.streak = 3

\* C3: with last_completed_date present, a check-off strictly after the expected
\* next date sets streak to exactly 1, whatever the prior streak and the gap.
C3_LateResets ==
    [][(/\ CallWith
        /\ habit.last_completed_date # None
        /\ date_gt(hist'.arg, ExpectedNext(habit.periodicity, habit.last_completed_date)))
         => habit'.streak = 1]_vars

C3_Witness ==
    /\ hist.op = "check_off" /\ hist.branch = "reset" /\ hist.arg # None
    /\ hist.streak0 = MaxStreak
    /\ habit.streak = 1
    /\ habit.last_completed_date.year = 2025

\* C4: with last_completed_date present, a check-off strictly before the expected
\* next date (same date, early, or before last_completed_date) leaves streak
\* unchanged and still sets last_completed_date to on_date and completed to true.
C4_EarlyKeeps ==
    [][(/\ CallWith
        /\ habit.last_completed_date # None
        /\ date_lt(hist'.arg, ExpectedNext(habit.periodicity, habit.last_completed_date)))
         => /\ habit'.streak = habit.streak
            /\ habit'.last_completed_date = hist'.arg
            /\ habit'.completed = TRUE]_vars

C4_Witness ==
    /\ hist.op = "check_off" /\ hist.branch = "keep" /\ hist.arg # None
    /\ hist.rel = "before"
    /\ habit.streak = 2
    /\ habit.last_completed_date = hist.arg

\* C5: in every state reached from a habit built by from_form through check_off
\* calls, streak = 0 exactly when last_completed_date is absent.
C5_ZeroIffAbsent ==
    (habit.streak = 0) <=> (habit.last_completed_date = None)

C5_Witness ==
    /\ hist.op = "check_off" /\ hist.branch = "keep" /\ hist.streak0 = 1
    /\ habit.last_completed_date # None

\* C6: each call leaves streak >= its previous value, or sets it to exactly 1, and
\* that only when on_date is strictly after the expected next date.
C6_NoDecreaseButReset ==
    [][hist'.op = "check_off"
         => \/ habit'.streak >= habit.streak
            \/ /\ habit'.streak = 1
               /\ habit.last_completed_date # None
               /\ date_gt(hist'.on_date,
                          ExpectedNext(habit.periodicity, habit.last_completed_date))]_vars

C6_Witness ==
    /\ hist.op = "check_off" /\ hist.branch = "reset"
    /\ hist.streak0 = 3 /\ habit.streak = 1
    /\ habit.periodicity = "daily"

\* C8: from a fresh daily or weekly habit, k check-offs each exactly one period
\* after the previous one give streak 1, 2, ..., k; a next check-off that skips a
\* period gives streak 1 (weekly Jan 6, Jan 13, then Jan 27).
C8_ChainCounts ==
    /\ [](hist.run > 0 => habit.streak = hist.run)
    /\ [][(/\ hist'.op = "check_off"
            /\ hist.run > 0
            /\ habit.periodicity \in {"daily", "weekly"}
            /\ date_gt(hist'.on_date,
                       plus_days(habit.last_completed_date,
                                 IF habit.periodicity = "daily" THEN 1 ELSE 7)))
             => habit'.streak = 1]_vars

C8_Witness ==
    /\ habit.periodicity = "weekly"
    /\ hist.op = "check_off" /\ hist.run0 = 2 /\ hist.streak0 = 2
    /\ habit.last_completed_date = date(2025, 1, 27)
    /\ habit.streak = 1

\* C9: for a monthly habit the expected next date is the same day of month in the
\* following month, clamped to its last day, December rolling to January; so
\* Jan 31 followed by Feb 28 (Feb 29 in a leap year) increments the streak.
C9_MonthlyExpected ==
    /\ []((habit.periodicity = "monthly" /\ habit.last_completed_date # None)
            => expected_next_date(habit) = MonthlySuccessor(habit.last_completed_date))
    /\ [][(/\ hist'.op = "check_off"
            /\ habit.periodicity = "monthly"
            /\ habit.last_completed_date # None
            /\ habit.last_completed_date.month = 1
            /\ habit.last_completed_date.day = 31
            /\ hist'.on_date =
                  LET y == habit.last_completed_date.year IN
                  date(y, 2, IF y % 4 = 0 /\ (y % 100 # 0 \/ y % 400 = 0)
                             THEN 29 ELSE 28))
             => habit'.streak = habit.streak + 1]_vars

C9_Witness ==
    /\ habit.periodicity = "monthly"
    /\ hist.op = "check_off" /\ hist.branch = "increment" /\ hist.day0 = 31
    /\ habit.last_completed_date = date(2025, 2, 28)
    /\ habit.streak = 2

\* C7 as claimed: after any call to check_off, streak >= 1, whatever progress
\* state the habit had before, a rehydrated row included.
C7_AlwaysAtLeastOne ==
    hist.op = "check_off" => habit.streak >= 1

\* C7 as amended: after a call to check_off on a habit that had streak >= 1 or no
\* last_completed_date before the call, streak >= 1.
C7_AtLeastOneFromConsistent ==
    [][(/\ hist'.op = "check_off"
        /\ (habit.streak >= 1 \/ habit.last_completed_date = None))
         => habit'.streak >= 1]_vars

C7_Witness ==
    /\ hist.op = "check_off" /\ hist.branch = "first"
    /\ hist.streak0 = 3
    /\ habit.streak = 1

-----------------------------------------------------------------------------
(* Claims about the CLI and the store *)

\* the columns a Habit's progress is stored as by check_off_flow
Stored(h) ==
    [completed |-> IF h.completed THEN 1 ELSE 0, streak |-> h.streak,
     last_completed_date |-> IF h.last_completed_date = None THEN None
                             ELSE isoformat(h.last_completed_date)]

\* C10: after any sequence of successful CLI check-offs, each stored row's
\* (completed, streak, last_completed_date) equals the state of an in-memory Habit
\* that started from the same state and received check_off with the same dates.
C10_CliMatchesEngine ==
    \A i \in 1..Len(habits) :
        [completed |-> habits[i].completed, streak |-> habits[i].streak,
         last_completed_date |-> habits[i].last_completed_date]
            = Stored(shadow[habits[i].id])

C10_Witness ==
    /\ cli.op = "check_off" /\ cli.outcome = "ok"
    /\ Len(completions) = 2
    /\ \E i \in 1..Len(habits) :
          /\ habits[i].id = cli.habit_id
          /\ habits[i].periodicity = "monthly"
          /\ habits[i].streak = 2
          /\ habits[i].last_completed_date = isoformat(date(2024, 2, 29))

-----------------------------------------------------------------------------
(* Claims about the analytics functions and Habit.from_form *)

\* the streak a row carries
StreakOf(r) == r.streak

\* positions of the rows that carry the periodicity p
Matching(rs, p) ==
    {i \in 1..Len(rs) : "periodicity" \in DOMAIN rs[i] /\ rs[i].periodicity = p}

\* the k-th smallest member of a set of positions
Kth(S, k) == CHOOSE i \in S : Cardinality({j \in S : j <= i}) = k

\* C12: longest_run_streak(rows) returns (id, streak) of a row with the maximum
\* streak, the first such row in input order on a tie, and (None, 0) for no rows.
C12_LongestFirstMax ==
    result.op = "longest_run_streak" =>
        IF rowlist = <<>>
        THEN result.value[1] = None /\ result.value[2] = 0
        ELSE \E i \in 1..Len(rowlist) :
                /\ result.value[1] = rowlist[i].id
                /\ result.value[2] = StreakOf(rowlist[i])
                /\ \A j \in 1..Len(rowlist) : StreakOf(rowlist[j]) <= StreakOf(rowlist[i])
                /\ \A j \in 1..(i - 1) : StreakOf(rowlist[j]) < StreakOf(rowlist[i])

C12_Witness ==
    /\ result.op = "longest_run_streak"
    /\ Len(rowlist) = 2
    /\ rowlist[1].streak = 2 /\ rowlist[2].streak = 2
    /\ rowlist[1].id = 2 /\ rowlist[2].id = 1
    /\ result.value[1] = 2

\* C13: longest_run_streak_for(rows, habit_id) returns the streak of the first row
\* in input order whose id is habit_id, and 0 when no row has that id.
C13_StreakForFirstMatch ==
    result.op = "longest_run_streak_for" =>
        LET hits == {i \in 1..Len(rowlist) : rowlist[i].id = result.arg} IN
        IF hits = {} THEN result.value = 0
        ELSE result.value = StreakOf(rowlist[Kth(hits, 1)])

C13_Witness ==
    /\ result.op = "longest_run_streak_for"
    /\ Len(rowlist) = 2
    /\ rowlist[1].id = result.arg /\ rowlist[2].id = result.arg
    /\ rowlist[1].streak = 1 /\ rowlist[2].streak = 2
    /\ result.value = 1

\* C14: list_by_periodicity(rows, p) returns views of exactly the rows whose
\* periodicity field equals p (case-sensitive), in input order, and an empty list
\* when no row matches.
C14_FilterExact ==
    result.op = "list_by_periodicity" =>
        LET hits == Matching(rowlist, result.arg) IN
        /\ Len(result.value) = Cardinality(hits)
        /\ \A k \in 1..Len(result.value) :
              LET r == rowlist[Kth(hits, k)] IN
              result.value[k] = [id |-> r.id, name |-> r.name,
                                 periodicity |-> result.arg, streak |-> r.streak,
                                 last_completed_date |-> r.last_completed_date]

C14_Witness ==
    /\ result.op = "list_by_periodicity" /\ result.arg = "daily"
    /\ Len(rowlist) = 2
    /\ "periodicity" \notin DOMAIN rowlist[1]
    /\ "periodicity" \in DOMAIN rowlist[2] /\ rowlist[2].periodicity = "daily"
    /\ Len(result.value) = 1
    /\ result.value[1].id = rowlist[2].id

\* C15: list_all_habits(rows) returns one view per row, in input order; the i-th
\* view carries the id, name, streak and last_completed_date of the i-th row.
C15_ListAllInOrder ==
    result.op = "list_all_habits" =>
        /\ Len(result.value) = Len(rowlist)
        /\ \A i \in 1..Len(rowlist) :
              /\ result.value[i].id = rowlist[i].id
              /\ result.value[i].name = rowlist[i].name
              /\ result.value[i].streak = rowlist[i].streak
              /\ result.value[i].last_completed_date = rowlist[i].last_completed_date

C15_Witness ==
    /\ result.op = "list_all_habits"
    /\ Len(rowlist) = 2
    /\ rowlist[1].id = 2 /\ rowlist[2].id = 1
    /\ rowlist[1].name # rowlist[2].name
    /\ result.value[1].id = 2 /\ result.value[2].id = 1

\* C16: none of list_all_habits, list_by_periodicity, longest_run_streak and
\* longest_run_streak_for changes the rows it is given.
C16_RowsUntouched ==
    [][result'.op \in {"list_all_habits", "list_by_periodicity",
                       "longest_run_streak", "longest_run_streak_for"}
         => rowlist' = rowlist]_vars

C16_Witness ==
    /\ result.op = "longest_run_streak"
    /\ Len(rowlist) = 2
    /\ "periodicity" \notin DOMAIN rowlist[1]
    /\ "periodicity" \in DOMAIN rowlist[2]

\* C17: Habit.from_form accepts only a periodicity in {daily, weekly, monthly} and
\* fails for any other value; every habit it returns has streak 0, completed false
\* and no last_completed_date.
C17_FromFormValidates ==
    result.op = "from_form" =>
        /\ result.periodicity \notin {"daily", "weekly", "monthly"}
              => result.value = ValueError
        /\ result.value # ValueError
              => /\ result.value.periodicity = result.periodicity
                 /\ result.value.streak = 0
                 /\ result.value.completed = FALSE
                 /\ result.value.last_completed_date = None

C17_Witness ==
    /\ result.op = "from_form"
    /\ result.periodicity = "Daily"
    /\ result.start_date = [y |-> 2025, m |-> 1, d |-> 6]
    /\ result.reminder = [h |-> 9, mi |-> 0]
    /\ result.value = ValueError

-----------------------------------------------------------------------------
(* Claims about the users table *)

\* C20: save_user fails when a stored user already has the given email and then
\* adds no user; no two stored users ever share an email.
C20_UniqueEmail ==
    /\ \A i, j \in 1..Len(users) : users[i].email = users[j].email => i = j
    /\ user_call.op = "save_user" =>
          IF \E i \in 1..Len(user_call.before) :
                user_call.before[i].email = user_call.email
          THEN user_call.raises = IntegrityError /\ users = user_call.before
          ELSE /\ user_call.raises = "none"
               /\ Len(users) = Len(user_call.before) + 1

C20_Witness ==
    /\ user_call.op = "save_user"
    /\ user_call.name = "B" /\ user_call.email = "a@ex.com"
    /\ Len(user_call.before) = 1
    /\ user_call.before[1].name = "A" /\ user_call.before[1].email = "a@ex.com"
    /\ user_call.raises = IntegrityError
    /\ users = user_call.before

-----------------------------------------------------------------------------
(* Claims about the menu loop and its flows *)

\* the completion events logged for a habit, in insertion order
EventsOf(comps, id) == SelectSeq(comps, LAMBDA c : c.habit_id = id)

\* s is an initial part of t
IsPrefix(s, t) == Len(s) <= Len(t) /\ \A i \in 1..Len(s) : s[i] = t[i]

\* C11: after any sequence of CLI operations, the number of completion events
\* logged for a stored habit equals the number of check_off_flow runs that selected
\* it, whether or not the run advanced the streak; a run aborted by an invalid
\* selection appends no event; the events of a stored habit are never modified.
C11_OneEventPerCheckOff ==
    [][/\ \A i \in 1..Len(habits') :
             Len(EventsOf(completions', habits'[i].id)) = runs'[habits'[i].id]
       /\ (cli'.op = "check_off" /\ cli'.outcome = "invalid")
             => completions' = completions
       /\ \A i \in 1..Len(habits') :
             IsPrefix(EventsOf(completions, habits'[i].id),
                      EventsOf(completions', habits'[i].id))]_vars

C11_Witness ==
    /\ cli.op = "check_off" /\ cli.outcome = "ok"
    /\ runs[cli.habit_id] = 2
    /\ Len(EventsOf(completions, cli.habit_id)) = 2
    /\ \E i \in 1..Len(habits) : habits[i].id = cli.habit_id /\ habits[i].streak = 1

\* a selection that is not one of the numbers 1..n the prompt lists
BadSelection(input, n) ==
    "text" \in DOMAIN input \/ input.int < 1 \/ input.int > n

\* a form with a bad date, a bad time or an unrecognized periodicity
BadForm(form) ==
    \/ "text" \in DOMAIN form.start_date
    \/ "text" \in DOMAIN form.reminder /\ form.reminder.text # ""
    \/ form.periodicity \notin {"", "daily", "weekly", "monthly"}

\* C18: a CLI flow that hits a validation error (add_habit_flow with a bad date,
\* time or periodicity; check_off_flow or delete_habit_flow with a non-numeric or
\* out-of-range selection) leaves the stored habits and completion events
\* unchanged, and the session continues at the menu.
C18_ValidationAborts ==
    [][(\/ /\ cli'.op \in {"check_off", "delete"}
           /\ BadSelection(cli'.input, Len(habits))
        \/ /\ cli'.op = "add"
           /\ BadForm(cli'.input))
         => /\ habits' = habits
            /\ completions' = completions
            /\ cli'.pc = "menu"]_vars

\* the operation each line of the printed menu offers
MenuLine ==
    [choice \in {"1", "2", "3", "4", "5", "6", "7", "8", "9", "10"} |->
        CASE choice = "1" -> "add"
          [] choice = "2" -> "list"
          [] choice = "3" -> "check_off"
          [] choice = "4" -> "summary"
          [] choice = "5" -> "history"
          [] choice = "6" -> "filter"
          [] choice = "7" -> "longest"
          [] choice = "8" -> "longest_for"
          [] choice = "9" -> "delete"
          [] choice = "10" -> "exit"]

\* C19: every step of the menu loop starts at the menu; a non-exit choice runs the
\* one operation its menu line names and control is back at the menu; an
\* unrecognized choice changes no stored state and is back at the menu; the loop
\* is left exactly when choice 10 is entered, and nothing runs after that.
C19_MenuLoop ==
    [][cli.pc # "start" =>
         /\ cli.pc = "menu"
         /\ cli'.pc = (IF cli'.choice = "10" THEN "exit" ELSE "menu")
         /\ cli'.choice \in DOMAIN MenuLine => cli'.op = MenuLine[cli'.choice]
         /\ cli'.choice \notin DOMAIN MenuLine
               => /\ cli'.op = "invalid"
                  /\ UNCHANGED <<habits, next_id, completions>>]_vars

C19_Witness ==
    /\ cli.pc = "exit" /\ cli.choice = "10"
    /\ Len(habits) = Len(DemoPeriodicities)
    /\ next_id = Len(DemoPeriodicities) + 2
    /\ Len(completions) = 1

-----------------------------------------------------------------------------
(* Claims about launches and demo data *)

\* C21: when save_user fails on a duplicate email during the user-creation flow
\* of the CLI, only that operation ends: the process does not end because of it.
C21_DuplicateEmailSurvives ==
    (cli.op = "startup" /\ user_call.raises = IntegrityError) => cli.pc # "crashed"

\* the rows of a user
HabitsOf(tbl, user_id) == SelectSeq(tbl, LAMBDA r : r.user_id = user_id)

\* C22: seed_demo_habits called for a user with no habits inserts exactly five
\* habits for that user, each with streak 0, completed 0 and no
\* last_completed_date; called for a user who has a habit it inserts nothing; a
\* second call leaves the stored habits as the first call left them.
C22_SeedIdempotent ==
    result.op = "seed_demo_habits" =>
        /\ IF HabitsOf(result.before, result.user_id) = <<>>
           THEN /\ Len(habits) = Len(result.before) + 5
                /\ SubSeq(habits, 1, Len(result.before)) = result.before
                /\ \A i \in (Len(result.before) + 1)..Len(habits) :
                      /\ habits[i].user_id = result.user_id
                      /\ habits[i].streak = 0
                      /\ habits[i].completed = 0
                      /\ habits[i].last_completed_date = None
           ELSE habits = result.before
        /\ seed_demo_habits(habits, next_id, result.user_id) = habits

C22_Witness ==
    /\ result.op = "seed_demo_habits" /\ result.user_id = 2
    /\ Len(HabitsOf(result.before, 2)) = 1
    /\ Len(HabitsOf(result.before, 1)) = 5
    /\ habits = result.before

-----------------------------------------------------------------------------
(* Further claims about the streak engine *)

\* C24: after any sequence of check_off calls with arbitrary dates, earlier ones
\* included, streak never exceeds the number of distinct dates on which the habit
\* has been checked off.
C24_StreakWithinDistinctDates ==
    habit.streak <= Cardinality(result.dates)

\* C23: for a weekly habit, a check-off whose date is fewer than 7 days after the
\* date of the previous check-off leaves the streak as it was, so over any
\* sequence of such check-offs the streak never changes after the first one.
C23_WeeklyEarlyKeepsStreak ==
    [][(/\ habit.periodicity = "weekly"
        /\ hist.op = "check_off" /\ hist'.op = "check_off"
        /\ toordinal(hist'.on_date) - toordinal(hist.on_date) < 7)
         => habit'.streak = habit.streak]_vars

C23_Witness ==
    /\ habit.periodicity = "weekly"
    /\ hist.op = "check_off" /\ hist.branch = "keep" /\ hist.rel = "after"
    /\ hist.streak0 = 1 /\ habit.streak = 1
    /\ habit.last_completed_date = date(2025, 1, 6)

\* C25: in every state reached from a habit built by Habit.from_form through
\* check_off calls, completed is true exactly when last_completed_date is
\* present, and a check_off never sets completed back to false.
C25_CompletedIffDated ==
    [][/\ habit.completed <=> habit.last_completed_date # None
       /\ habit'.completed <=> habit'.last_completed_date # None
       /\ habit.completed => habit'.completed]_vars

C25_Witness ==
    /\ hist.op = "check_off" /\ hist.branch = "reset"
    /\ hist.streak0 = 3
    /\ habit.completed /\ habit.last_completed_date # None

\* C26: for a monthly habit, a check-off on the expected date never has a larger
\* day of month than the check-off before it: once clamped (Jan 31 to Feb 28) the
\* chain stays on the clamped day (Mar 28, not Mar 31).
C26_MonthlyDayNeverGrows ==
    [][(/\ habit.periodicity = "monthly"
        /\ hist'.op = "check_off" /\ hist'.branch = "increment")
         => habit'.last_completed_date.day <= habit.last_completed_date.day]_vars

C26_Witness ==
    /\ habit.periodicity = "monthly"
    /\ hist.op = "check_off" /\ hist.branch = "increment"
    /\ hist.day0 = 28 /\ hist.streak0 = 2
    /\ habit.last_completed_date = date(2025, 3, 28)

-----------------------------------------------------------------------------
(* Further claims about the analytics functions *)

\* C27: for every list of rows and every periodicity p, list_by_periodicity(rows, p)
\* equals the sublist of list_all_habits(rows) whose view periodicity is p, also
\* for rows that carry no periodicity field (which list_all_habits shows as daily).
C27_FilterAgreesWithViews ==
    result.op = "list_by_periodicity" =>
        result.value = SelectSeq(list_all_habits(rowlist),
                                 LAMBDA v : v.periodicity = result.arg)

-----------------------------------------------------------------------------
(* Claims about the reminders *)

\* C28: when several reminders have been started, each reminder's message is
\* printed at most once per 24-hour interval: under any interleaving of the runner
\* threads, a reminder has been printed at most as often as full intervals have
\* passed since its job was registered.
C28_OncePerInterval ==
    \A j \in 1..Len(reminders.jobs) :
        reminders.printed[reminders.jobs[j].reminder]
            <= (reminders.now - reminders.jobs[j].since) \div Interval

====
